---- MODULE Spec2Model ----
(***************************************************************************)
(* A model of my-cli: the cobra root command (cmd/root.go) and the GitHub  *)
(* user lookup (github/api.go).                                            *)
(*                                                                         *)
(* Identifiers and URLs are sequences of one-character strings, so that    *)
(* the URL built by fmt.Sprintf can be parsed character by character.      *)
(* Printed lines and JSON string values are TLA+ strings.                  *)
(*                                                                         *)
(* Spec        one run of the process: main -> Execute -> Run -> GetUser.  *)
(* SpecLookup  a caller that invokes GetUser several times in one process, *)
(*             each time against a stubbed transport.                      *)
(***************************************************************************)
EXTENDS Integers, Sequences, FiniteSets, TLC

VARIABLES pc, args, env, user, stdout, stderr, exitCode, calls, gitHubUser

vars == <<pc, args, env, user, stdout, stderr, exitCode, calls, gitHubUser>>

---------------------------------------------------------------------------
(* Bounds *)

\* longest identifier given on the command line
MaxUserLen == 2

\* number of GetUser calls the caller of SpecLookup makes
MaxCalls == 3

---------------------------------------------------------------------------
(* Strings as character sequences *)

\* characters an identifier is made of: one ordinary character (also a
\* hexadecimal digit) and the characters that are special in a URL
Alphabet == {"a", "/", "?", "#", "%", " "}

HexDigits == {"0", "1", "2", "3", "4", "5", "6", "7", "8", "9",
              "a", "b", "c", "d", "e", "f", "A", "B", "C", "D", "E", "F"}

SeqsUpTo(S, n) == UNION {[1..k -> S] : k \in 0..n}

Users == SeqsUpTo(Alphabet, MaxUserLen)

\* position of the first occurrence of c in s, 0 when there is none
IndexOf(s, c) ==
    IF \E i \in 1..Len(s) : s[i] = c
    THEN CHOOSE i \in 1..Len(s) : s[i] = c /\ \A j \in 1..(i - 1) : s[j] # c
    ELSE 0

\* number of occurrences of c in s
Count(s, c) == Cardinality({i \in 1..Len(s) : s[i] = c})

IsPrefix(p, s) == Len(p) <= Len(s) /\ SubSeq(s, 1, Len(p)) = p

Drop(s, n) == SubSeq(s, n + 1, Len(s))

---------------------------------------------------------------------------
(* cmd/root.go *)

\* the default of the "user" flag
FlagDefault == << >>

\* the command lines cobra can be given: the flag absent or given with a
\* value (-u v, --user v), an argument cobra rejects, or the help flag
ArgsSet ==
    {[kind |-> "flags", given |-> FALSE, value |-> FlagDefault]}
    \cup {[kind |-> "flags", given |-> TRUE, value |-> v] : v \in Users}
    \cup {[kind |-> "unknown", given |-> FALSE, value |-> FlagDefault],
          [kind |-> "help", given |-> FALSE, value |-> FlagDefault]}

\* the values of the environment variable USER (empty: unset)
EnvSet == {<< >>, <<"a">>}

\* cmd.Flags().GetString("user"): the flag's value, its default when absent.
\* viper.AutomaticEnv() is on, but the value is never read through viper,
\* so the environment is not consulted.
GetString(a, e) == IF a.given THEN a.value ELSE FlagDefault

MissingUserMsg == "É necessário informar um usuário com -u ou --user"

\* RunCheck without the os.Exit(1)
RunCheckNoExit(u) ==
    IF u = << >>
    THEN [out |-> <<MissingUserMsg>>, err |-> << >>, exit |-> FALSE, code |-> 0]
    ELSE [out |-> << >>, err |-> << >>, exit |-> FALSE, code |-> 0]

\* RunCheck with the message written to os.Stderr
RunCheckStderr(u) ==
    IF u = << >>
    THEN [out |-> << >>, err |-> <<MissingUserMsg>>, exit |-> TRUE, code |-> 1]
    ELSE [out |-> << >>, err |-> << >>, exit |-> FALSE, code |-> 0]

\* the body of rootCmd.Run up to the call of GetUser: what is printed where,
\* whether the process exits and with which code
RunCheck(u) ==
    IF u = << >>
    THEN [out |-> <<MissingUserMsg>>, err |-> << >>, exit |-> TRUE, code |-> 1]
    ELSE [out |-> << >>, err |-> << >>, exit |-> FALSE, code |-> 0]

---------------------------------------------------------------------------
(* github/api.go: the Profile record and the JSON body *)

\* the zero value of GitHubUser
ZeroGitHubUser == [Login |-> "", Name |-> "", Followers |-> 0, Following |-> 0]

\* JSON values of a member of the response object; Absent: no such member
Absent == [t |-> "absent", s |-> "", n |-> 0]
JNull == [t |-> "null", s |-> "", n |-> 0]
JStr(x) == [t |-> "string", s |-> x, n |-> 0]
JNum(x) == [t |-> "number", s |-> "", n |-> x]

LoginValues == {Absent, JNull, JStr("facebook"), JNum(7)}
NameValues == {Absent, JNull, JStr("Facebook"), JNum(7)}
CountValues == {Absent, JNum(0), JNum(42), JStr("many")}

NoMembers == [login |-> Absent, name |-> Absent, followers |-> Absent,
              following |-> Absent, extra |-> FALSE]

\* a response body: no bytes at all, bytes that are not JSON, a JSON value
\* that is not an object (an array, null), or an object with any of the four
\* members and possibly members GitHubUser has no field for
Body(k, m) == [kind |-> k, m |-> m]

Objects ==
    {Body("object", m) : m \in [login : LoginValues, name : NameValues,
                                followers : CountValues, following : CountValues,
                                extra : BOOLEAN]}

Bodies ==
    {Body("empty", NoMembers), Body("garbage", NoMembers),
     Body("array", NoMembers), Body("null", NoMembers)} \cup Objects

StatusCodes == {200, 404}

\* what the network answers to one GET: no response at all, or a response
NoResponse == [fail |-> TRUE, status |-> 0, body |-> Body("empty", NoMembers)]

Responses(S, B) == {[fail |-> FALSE, status |-> s, body |-> b] : s \in S, b \in B}

Transports == {NoResponse} \cup Responses(StatusCodes, Bodies)

---------------------------------------------------------------------------
(* github/api.go: GetUser *)

BaseURL == <<"h", "t", "t", "p", "s", ":", "/", "/",
             "a", "p", "i", ".", "g", "i", "t", "h", "u", "b", ".", "c", "o", "m",
             "/", "u", "s", "e", "r", "s", "/">>

\* fmt.Sprintf("https://api.github.com/users/%s", user): the identifier is
\* appended as it is
Sprintf(u) == BaseURL \o u

\* net/url refuses a URL in which a '%' is not followed by two hex digits
ValidEscapes(url) ==
    \A i \in 1..Len(url) :
        url[i] = "%" =>
            /\ i + 2 <= Len(url)
            /\ url[i + 1] \in HexDigits
            /\ url[i + 2] \in HexDigits

\* HttpGet with a status other than 200 turned into an error
HttpGetCheckStatus(url, t) ==
    IF ~ValidEscapes(url)
    THEN [err |-> "invalid URL escape", nil |-> TRUE, sent |-> FALSE,
          status |-> 0, body |-> Body("empty", NoMembers)]
    ELSE IF t.fail
    THEN [err |-> "connection refused", nil |-> TRUE, sent |-> TRUE,
          status |-> 0, body |-> Body("empty", NoMembers)]
    ELSE IF t.status # 200
    THEN [err |-> "unexpected status", nil |-> TRUE, sent |-> TRUE,
          status |-> 0, body |-> Body("empty", NoMembers)]
    ELSE [err |-> "", nil |-> FALSE, sent |-> TRUE,
          status |-> t.status, body |-> t.body]

\* http.Get(url): (resp, err). err is set, and resp is nil, when the URL does
\* not parse (nothing is sent) or the transport fails; any response, whatever
\* its status code, comes back with a nil err.
HttpGet(url, t) ==
    IF ~ValidEscapes(url)
    THEN [err |-> "invalid URL escape", nil |-> TRUE, sent |-> FALSE,
          status |-> 0, body |-> Body("empty", NoMembers)]
    ELSE IF t.fail
    THEN [err |-> "connection refused", nil |-> TRUE, sent |-> TRUE,
          status |-> 0, body |-> Body("empty", NoMembers)]
    ELSE [err |-> "", nil |-> FALSE, sent |-> TRUE,
          status |-> t.status, body |-> t.body]

\* GetErrBranch without its return
GetErrBranchNoReturn(err) ==
    [out |-> <<"Erro ao buscar o usuário: " \o err>>, returned |-> FALSE]

\* if err != nil { fmt.Println("Erro ao buscar o usuário:", err); return }
GetErrBranch(err) ==
    [out |-> <<"Erro ao buscar o usuário: " \o err>>, returned |-> TRUE]

\* DeferClose left out
NotDeferred(resp) == << >>

\* defer resp.Body.Close(): the calls that run when GetUser returns
DeferClose(resp) == <<"resp.Body.Close">>

\* one member decoded into a string field: null and a missing member leave
\* the field as it was, a value of another type is an error
DecodeString(old, v) ==
    IF v.t = "string" THEN [err |-> FALSE, v |-> v.s]
    ELSE IF v.t \in {"absent", "null"} THEN [err |-> FALSE, v |-> old]
    ELSE [err |-> TRUE, v |-> old]

DecodeInt(old, v) ==
    IF v.t = "number" THEN [err |-> FALSE, v |-> v.n]
    ELSE IF v.t \in {"absent", "null"} THEN [err |-> FALSE, v |-> old]
    ELSE [err |-> TRUE, v |-> old]

\* json.NewDecoder(body).Decode(&target)
DecodeInto(target, body) ==
    CASE body.kind = "empty" -> [err |-> "EOF", v |-> target]
      [] body.kind = "garbage" ->
            [err |-> "invalid character 'N' looking for beginning of value",
             v |-> target]
      [] body.kind = "array" ->
            [err |-> "json: cannot unmarshal array into Go value of type github.GitHubUser",
             v |-> target]
      [] body.kind = "null" -> [err |-> "", v |-> target]
      [] OTHER ->
            LET l == DecodeString(target.Login, body.m.login)
                n == DecodeString(target.Name, body.m.name)
                fs == DecodeInt(target.Followers, body.m.followers)
                fg == DecodeInt(target.Following, body.m.following)
            IN  [err |-> IF l.err \/ n.err \/ fs.err \/ fg.err
                         THEN "json: cannot unmarshal value into Go struct field"
                         ELSE "",
                 v |-> [Login |-> l.v, Name |-> n.v,
                        Followers |-> fs.v, Following |-> fg.v]]

\* Decode into a gitHubUser that outlives the call (a package-level variable)
DecodeShared(body) == DecodeInto(gitHubUser, body)

\* var gitHubUser GitHubUser; json.NewDecoder(resp.Body).Decode(&gitHubUser):
\* the target is a fresh local, the zero value, on every call
Decode(body) == DecodeInto(ZeroGitHubUser, body)

\* DecodeErrBranch without its return
DecodeErrBranchNoReturn(err) ==
    [out |-> <<"Erro ao decodificar resposta: " \o err>>, returned |-> FALSE]

\* if err := ...Decode(&gitHubUser); err != nil {
\*     fmt.Println("Erro ao decodificar resposta:", err); return }
DecodeErrBranch(err) ==
    [out |-> <<"Erro ao decodificar resposta: " \o err>>, returned |-> TRUE]

Digit == <<"0", "1", "2", "3", "4", "5", "6", "7", "8", "9">>

\* the %d verb: the decimal digits of n, most significant first
RECURSIVE FormatNat(_)
FormatNat(n) ==
    IF n < 10 THEN Digit[n + 1]
    ELSE FormatNat(n \div 10) \o Digit[(n % 10) + 1]

FormatInt(n) == IF n < 0 THEN "-" \o FormatNat(-n) ELSE FormatNat(n)

\* Printf with the two counts in each other's place
PrintfSwapped(u) ==
    <<"Usuário: " \o u.Login,
      "Nome: " \o u.Name,
      "Seguidores: " \o FormatInt(u.Following),
      "Seguindo: " \o FormatInt(u.Followers)>>

\* fmt.Printf("Usuário: %s\nNome: %s\nSeguidores: %d\nSeguindo: %d\n", ...):
\* the lines written
Printf(u) ==
    <<"Usuário: " \o u.Login,
      "Nome: " \o u.Name,
      "Seguidores: " \o FormatInt(u.Followers),
      "Seguindo: " \o FormatInt(u.Following)>>

\* One call of GetUser(user) against the transport answer t: the URL asked
\* for, the number of requests sent, of decodes and of Body.Close calls, the
\* lines printed, the record left in gitHubUser, and whether the call
\* panicked instead of returning.
GetUser(u, t) ==
    LET url == Sprintf(u)
        r == HttpGet(url, t)
        b1 == IF r.err # "" THEN GetErrBranch(r.err)
              ELSE [out |-> << >>, returned |-> FALSE]
        base == [url |-> url, gets |-> 1, sent |-> r.sent, gotResp |-> ~r.nil,
                 status |-> r.status, decodes |-> 0, closes |-> 0,
                 out |-> b1.out, decoded |-> gitHubUser, panicked |-> FALSE]
    IN  IF b1.returned THEN base
        ELSE IF r.nil THEN [base EXCEPT !.panicked = TRUE]
        ELSE
            LET deferred == DeferClose(r)
                d == Decode(r.body)
                b2 == IF d.err # "" THEN DecodeErrBranch(d.err)
                      ELSE [out |-> << >>, returned |-> FALSE]
                out2 == IF b2.returned THEN b1.out \o b2.out
                        ELSE b1.out \o b2.out \o Printf(d.v)
            IN  [base EXCEPT !.decodes = 1, !.closes = Len(deferred),
                             !.out = out2, !.decoded = d.v]

---------------------------------------------------------------------------
(* The process: main -> cmd.Execute -> rootCmd.Run -> github.GetUser *)

\* exitCode is -1 while the process runs
Init ==
    /\ pc = "main"
    /\ args \in ArgsSet
    /\ env \in EnvSet
    /\ user = << >>
    /\ stdout = << >>
    /\ stderr = << >>
    /\ exitCode = -1
    /\ calls = << >>
    /\ gitHubUser = ZeroGitHubUser

\* rootCmd.Execute() fails on a command line cobra cannot parse: cobra
\* reports the error on standard error, Execute prints it and exits 1
ExecuteError ==
    /\ pc = "main"
    /\ args.kind = "unknown"
    /\ stderr' = stderr \o <<"Error: unknown flag">>
    /\ stdout' = stdout \o <<"unknown flag">>
    /\ exitCode' = 1
    /\ pc' = "exit"
    /\ UNCHANGED <<args, env, user, calls, gitHubUser>>

\* the help flag: cobra prints the usage and returns nil without calling Run
ExecuteHelp ==
    /\ pc = "main"
    /\ args.kind = "help"
    /\ stdout' = stdout \o <<"Usage: my-cli [flags]">>
    /\ exitCode' = 0
    /\ pc' = "exit"
    /\ UNCHANGED <<args, env, user, stderr, calls, gitHubUser>>

\* rootCmd.Execute() parses the flags and calls Run
ExecuteRun ==
    /\ pc = "main"
    /\ args.kind = "flags"
    /\ pc' = "Run"
    /\ UNCHANGED <<args, env, user, stdout, stderr, exitCode, calls, gitHubUser>>

\* rootCmd.Run up to the call of GetUser
Run ==
    /\ pc = "Run"
    /\ LET u == GetString(args, env)
           rc == RunCheck(u)
       IN  /\ user' = u
           /\ stdout' = stdout \o rc.out
           /\ stderr' = stderr \o rc.err
           /\ IF rc.exit
              THEN exitCode' = rc.code /\ pc' = "exit"
              ELSE exitCode' = exitCode /\ pc' = "GetUser"
    /\ UNCHANGED <<args, env, calls, gitHubUser>>

\* what one call GetUser(u) against transport answer t does to the process
DoGetUser(u, t) ==
    LET r == GetUser(u, t)
    IN  /\ calls' = Append(calls, [user |-> u, t |-> t, r |-> r])
        /\ stdout' = stdout \o r.out
        /\ gitHubUser' = r.decoded

\* github.GetUser(user), called by Run; a panic ends the process with 2
CallGetUser ==
    /\ pc = "GetUser"
    /\ \E t \in Transports :
        /\ DoGetUser(user, t)
        /\ IF GetUser(user, t).panicked
           THEN exitCode' = 2 /\ pc' = "exit"
           ELSE exitCode' = exitCode /\ pc' = "returned"
    /\ UNCHANGED <<args, env, user, stderr>>

\* GetUser, Run and Execute return; main returns and the process exits 0
Return ==
    /\ pc = "returned"
    /\ exitCode' = 0
    /\ pc' = "exit"
    /\ UNCHANGED <<args, env, user, stdout, stderr, calls, gitHubUser>>

Next ==
    \/ ExecuteError
    \/ ExecuteHelp
    \/ ExecuteRun
    \/ Run
    \/ CallGetUser
    \/ Return

Spec == Init /\ [][Next]_vars

---------------------------------------------------------------------------
(* A caller of GetUser with a stubbed transport *)

\* the identifiers and the stubbed answers the caller uses
StubUsers == {<<"a">>, <<"a", "a">>}

EmptyObject == Body("object", NoMembers)

FacebookBody ==
    Body("object", [login |-> JStr("facebook"), name |-> JStr("Facebook"),
                    followers |-> JNum(0), following |-> JNum(0),
                    extra |-> FALSE])

LoginOnlyBody ==
    Body("object", [NoMembers EXCEPT !.login = JStr("facebook")])

StubBodies == {Body("garbage", NoMembers), EmptyObject, FacebookBody, LoginOnlyBody}

StubTransports == {NoResponse} \cup Responses(StatusCodes, StubBodies)

InitLookup ==
    /\ pc = "caller"
    /\ args = [kind |-> "flags", given |-> FALSE, value |-> FlagDefault]
    /\ env = << >>
    /\ user = << >>
    /\ stdout = << >>
    /\ stderr = << >>
    /\ exitCode = -1
    /\ calls = << >>
    /\ gitHubUser = ZeroGitHubUser

Lookup ==
    /\ pc = "caller"
    /\ Len(calls) < MaxCalls
    /\ \E u \in StubUsers, t \in StubTransports :
        /\ DoGetUser(u, t)
        /\ user' = u
    /\ UNCHANGED <<pc, args, env, stderr, exitCode>>

NextLookup == Lookup

SpecLookup == InitLookup /\ [][NextLookup]_vars

---------------------------------------------------------------------------
(* Properties of the root command *)

\* the command line leaves the user option empty: the flag is absent, or
\* given with the empty string
OptionEmpty == args.kind = "flags" /\ (~args.given \/ args.value = << >>)

\* C1: whenever Run is reached with the user option empty, GetUser is never
\* called (so no request is made) and the process ends with a non-zero
\* exit status.
C1_EmptyUserExitsWithoutLookup ==
    OptionEmpty =>
        /\ calls = << >>
        /\ pc \in {"main", "Run", "exit"}
        /\ pc = "exit" => exitCode = 1

C1_Witness ==
    /\ pc = "exit"
    /\ args.kind = "flags" /\ args.given /\ args.value = << >>
    /\ exitCode = 1
    /\ calls = << >>

\* C2: with the flag absent and a non-empty value in the environment, the
\* run calls GetUser with the environment's value and does not report a
\* missing user.
C2_EnvironmentFallback ==
    (pc = "exit" /\ args.kind = "flags" /\ ~args.given /\ env # << >>) =>
        /\ Len(calls) = 1
        /\ calls[1].user = env
        /\ \A i \in 1..Len(stdout) : stdout[i] # MissingUserMsg

\* C3: with the user option empty, the missing-user message goes to
\* standard error, nothing goes to standard output, and the exit status is
\* non-zero.
C3_MissingUserOnStderr ==
    (pc = "exit" /\ OptionEmpty) =>
        /\ stderr = <<MissingUserMsg>>
        /\ stdout = << >>
        /\ exitCode # 0

\* C3 as the code has it: the message is the one line written to standard
\* output, nothing is written to standard error, and the exit status is 1.
C3_MissingUserOnStdout ==
    (pc = "exit" /\ OptionEmpty) =>
        /\ stdout = <<MissingUserMsg>>
        /\ stderr = << >>
        /\ exitCode = 1

C3_Witness ==
    /\ pc = "exit"
    /\ args.kind = "flags" /\ ~args.given
    /\ stdout = <<MissingUserMsg>>
    /\ stderr = << >>
    /\ exitCode = 1

---------------------------------------------------------------------------
(* Properties of GetUser in one run of the process *)

\* the run has called GetUser and the call is over
Called == Len(calls) = 1 /\ pc \in {"returned", "exit"}

\* a member's value as the Profile record shows it: the value when it has
\* the field's type, the zero value when the member is missing or null
StringOf(v) == IF v.t = "string" THEN v.s ELSE ""

IntOf(v) == IF v.t = "number" THEN v.n ELSE 0

\* the body is JSON the Profile record accepts: null, or an object in which
\* no member has a value of another type than its field
Decodable(b) ==
    \/ b.kind = "null"
    \/ /\ b.kind = "object"
       /\ b.m.login.t \in {"absent", "null", "string"}
       /\ b.m.name.t \in {"absent", "null", "string"}
       /\ b.m.followers.t \in {"absent", "null", "number"}
       /\ b.m.following.t \in {"absent", "null", "number"}

FourLines(b) ==
    <<"Usuário: " \o StringOf(b.m.login),
      "Nome: " \o StringOf(b.m.name),
      "Seguidores: " \o ToString(IntOf(b.m.followers)),
      "Seguindo: " \o ToString(IntOf(b.m.following))>>

\* C4: when a response is obtained and its body decodes, standard output
\* holds exactly the four lines, in order, with the body's values, the zero
\* value for a missing member, and no trace of members the record lacks.
C4_FourLineProfile ==
    (Called /\ calls[1].r.gotResp /\ Decodable(calls[1].t.body)) =>
        stdout = FourLines(calls[1].t.body)

C4_Witness ==
    /\ Called
    /\ calls[1].r.gotResp
    /\ calls[1].t.body.kind = "object"
    /\ calls[1].t.body.m.extra
    /\ calls[1].t.body.m.name = Absent
    /\ stdout = <<"Usuário: facebook", "Nome: ", "Seguidores: 42", "Seguindo: 0">>

GetErrLines ==
    {"Erro ao buscar o usuário: connection refused",
     "Erro ao buscar o usuário: invalid URL escape"}

\* C5: when the GET yields no response, GetUser prints one error line and
\* nothing else, attempts no decode, and returns; the process exits 0.
C5_TransportFailure ==
    (Len(calls) = 1 /\ ~calls[1].r.gotResp) =>
        /\ Len(stdout) = 1
        /\ stdout[1] \in GetErrLines
        /\ calls[1].r.decodes = 0
        /\ ~calls[1].r.panicked
        /\ pc \in {"returned", "exit"}
        /\ pc = "exit" => exitCode = 0

C5_Witness ==
    /\ pc = "exit"
    /\ Len(calls) = 1
    /\ calls[1].t.fail
    /\ stdout = <<"Erro ao buscar o usuário: connection refused">>
    /\ exitCode = 0

DecodeErrLines ==
    {"Erro ao decodificar resposta: EOF",
     "Erro ao decodificar resposta: invalid character 'N' looking for beginning of value",
     "Erro ao decodificar resposta: json: cannot unmarshal array into Go value of type github.GitHubUser",
     "Erro ao decodificar resposta: json: cannot unmarshal value into Go struct field"}

\* C6: when a response is obtained and its body is not JSON the Profile
\* record accepts, GetUser prints one decode-error line, none of the four
\* profile lines, and returns without a panic.
C6_DecodeFailure ==
    (Len(calls) = 1 /\ calls[1].r.gotResp /\ ~Decodable(calls[1].t.body)) =>
        /\ Len(stdout) = 1
        /\ stdout[1] \in DecodeErrLines
        /\ ~calls[1].r.panicked
        /\ pc \in {"returned", "exit"}

C6_Witness ==
    /\ Called
    /\ calls[1].r.gotResp
    /\ calls[1].t.body.kind = "garbage"
    /\ Len(stdout) = 1
    /\ stdout[1] \in DecodeErrLines

\* C7: when GetUser has returned, the response body was closed exactly once
\* if a response was obtained, after a printed profile as after a decode
\* failure, and no close happened if none was obtained.
C7_BodyClosedOnce ==
    \A i \in 1..Len(calls) :
        calls[i].r.closes = IF calls[i].r.gotResp THEN 1 ELSE 0

C7_Witness ==
    /\ Called
    /\ calls[1].r.gotResp
    /\ ~Decodable(calls[1].t.body)
    /\ calls[1].r.closes = 1

\* url.PathEscape of one character of the alphabet
EscapeChar(c) ==
    CASE c = "/" -> <<"%", "2", "F">>
      [] c = "?" -> <<"%", "3", "F">>
      [] c = "#" -> <<"%", "2", "3">>
      [] c = "%" -> <<"%", "2", "5">>
      [] c = " " -> <<"%", "2", "0">>
      [] OTHER -> <<c>>

RECURSIVE PathEscape(_)
PathEscape(u) ==
    IF u = << >> THEN << >> ELSE EscapeChar(Head(u)) \o PathEscape(Tail(u))

\* the parts of a URL: the fragment starts at the first '#', the query at
\* the first '?' before it, the rest is scheme, host and path
BeforeFragment(url) ==
    IF IndexOf(url, "#") = 0 THEN url ELSE SubSeq(url, 1, IndexOf(url, "#") - 1)

HasFragment(url) == IndexOf(url, "#") # 0

HasQuery(url) == IndexOf(BeforeFragment(url), "?") # 0

BeforeQuery(url) ==
    IF HasQuery(url)
    THEN SubSeq(url, 1, IndexOf(BeforeFragment(url), "?") - 1)
    ELSE BeforeFragment(url)

\* the path segments that follow /users/
SegmentsAfterBase(url) == Count(Drop(BeforeQuery(url), Len(BaseURL)), "/") + 1

\* C8: for every non-empty identifier the URL asked for is the base followed
\* by the path-encoded identifier: one path segment after /users/, no query
\* and no fragment.
C8_IdentifierIsOnePathSegment ==
    \A i \in 1..Len(calls) :
        calls[i].user # << >> =>
            /\ calls[i].r.url = BaseURL \o PathEscape(calls[i].user)
            /\ IsPrefix(BaseURL, BeforeQuery(calls[i].r.url))
            /\ SegmentsAfterBase(calls[i].r.url) = 1
            /\ ~HasQuery(calls[i].r.url)
            /\ ~HasFragment(calls[i].r.url)

---------------------------------------------------------------------------
(* Properties of repeated calls of GetUser *)

\* C9: two calls of GetUser in one process with the same identifier and the
\* same stubbed answer print the same lines, whether the second follows the
\* first at once or other calls lie between them: a call reads nothing an
\* earlier call wrote.
C9_SameInputsSameOutput ==
    \A i, j \in 1..Len(calls) :
        (calls[i].user = calls[j].user /\ calls[i].t = calls[j].t) =>
            calls[i].r.out = calls[j].r.out

C9_Witness ==
    /\ Len(calls) >= 2
    /\ calls[1].user = calls[2].user
    /\ calls[1].t = calls[2].t
    /\ calls[1].t.body = FacebookBody
    /\ ~calls[1].t.fail
    /\ calls[2].r.out = calls[1].r.out
    /\ Len(calls[2].r.out) = 4
    /\ stdout = calls[1].r.out \o calls[2].r.out

\* C10: two calls whose responses carry the same body under different status
\* codes print the same lines, and every call makes one GET.
C10_StatusIgnored ==
    /\ \A i \in 1..Len(calls) : calls[i].r.gets = 1 /\ calls[i].r.sent
    /\ \A i, j \in 1..Len(calls) :
        (/\ calls[i].user = calls[j].user
         /\ ~calls[i].t.fail /\ ~calls[j].t.fail
         /\ calls[i].t.body = calls[j].t.body) =>
            calls[i].r.out = calls[j].r.out

C10_Witness ==
    /\ Len(calls) >= 2
    /\ calls[1].user = calls[2].user
    /\ ~calls[1].t.fail /\ ~calls[2].t.fail
    /\ calls[1].t.status = 200 /\ calls[2].t.status = 404
    /\ calls[1].t.body = EmptyObject /\ calls[2].t.body = EmptyObject
    /\ calls[2].r.out = calls[1].r.out
    /\ calls[2].r.out = <<"Usuário: ", "Nome: ", "Seguidores: 0", "Seguindo: 0">>

====
